---- MODULE Spec2Model ----
(***************************************************************************)
(* Load combination utilities of xc                                        *)
(* (python_modules/actions/load_combination_utils/utils.py).               *)
(*                                                                         *)
(* Python strings are sequences of one-character strings, a Python dict is *)
(* the sequence of its <<key, value>> pairs in insertion order, and a call *)
(* that may raise returns a record [raised, retval] whose raised field is  *)
(* "None" or the name of the exception.                                    *)
(***************************************************************************)
EXTENDS Integers, Sequences, FiniteSets, TLC

VARIABLES
  loadCombinations,  \* getNamedCombinations: the list to be named
  prefix,            \* getNamedCombinations: the prefix argument
  named,             \* getNamedCombinations: what the call returned
  combDict,          \* getCombinationExpr: the dictionary argument
  expr,              \* what getCombinationExpr returned
  parsed,            \* what getCombinationDict returned for expr
  registry,          \* CombGenerator: the actions held by controlCombGenerator
  calls,             \* the arguments of the newAction calls that inserted
                     \* an action, in the order of the registry
  container,         \* controlCombGenerator.getLoadCombinations, by situation
  generatedFrom,     \* how many actions were registered when genera() last ran
  raised,            \* the exception the last call raised, "None" if none
  outFile,           \* f, the sink of the last writeXCLoadCombinations call
  request,           \* the last call made on the generator: [op, args]
  result,            \* what the last getNamedCombinations or
                     \* getLoadCombinationsDict call of the generator returned
  runs,              \* how many times computeCombinations was called
  combExpr,          \* an expression, the argument of the expression utilities
  written,           \* the terms combExpr was written from, and how
  desiredLoads,      \* splitCombination: the names of the desired loads
  combinationDict,   \* what getCombinationDict returned for combExpr
  split,             \* what splitCombination returned
  fileName           \* what getFileNameFromCombinationExpresion returned

namerVars == <<loadCombinations, prefix, named>>

exprVars == <<combDict, expr, parsed>>

genVars ==
  <<registry, calls, container, generatedFrom, raised, outFile, request, result,
    runs>>

textVars == <<combExpr, written, desiredLoads, combinationDict, split, fileName>>

vars == <<loadCombinations, prefix, named, combDict, expr, parsed,
          registry, calls, container, generatedFrom, raised, outFile,
          request, result, runs,
          combExpr, written, desiredLoads, combinationDict, split, fileName>>

NoCall == [raised |-> "NoCall", retval |-> <<>>]

NoRequest == [op |-> "None", args |-> <<>>]

Request(op, args) == [op |-> op, args |-> args]

Return(v) == [raised |-> "None", retval |-> v]

Raise(e) == [raised |-> e, retval |-> <<>>]

-----------------------------------------------------------------------------
(* Bounds of the model.                                                    *)

\* Every list length 0..MaxSz is named, and the lengths of BigSz besides.
MaxSz == 12

\* Lengths around the powers of ten, where the padding width changes.
BigSz == {99, 100, 101, 999, 1000, 1001}

SzSet == (0..MaxSz) \cup BigSz

\* The dictionaries rendered and parsed hold at most MaxTerms entries.
MaxTerms == 2

\* The expressions parsed and split hold at most MaxAddends terms.
MaxAddends == 2

\* A generator holds at most MaxActions actions.
MaxActions == 4

\* computeCombinations is called at most MaxRuns times.
MaxRuns == 2

-----------------------------------------------------------------------------
(* Python's str and dict primitives.                                       *)

Digits == <<"0", "1", "2", "3", "4", "5", "6", "7", "8", "9">>

IsDigit(c) == \E d \in 1..10 : Digits[d] = c

\* str(n) for an int n >= 0.
RECURSIVE StrNat(_)
StrNat(n) == IF n < 10 THEN <<Digits[n + 1]>>
             ELSE StrNat(n \div 10) \o <<Digits[(n % 10) + 1]>>

\* [c]*n
RECURSIVE Repeat(_, _)
Repeat(c, n) == IF n <= 0 THEN <<>> ELSE <<c>> \o Repeat(c, n - 1)

\* s.zfill(width) for a string without sign: never truncates.
zfill(s, width) == Repeat("0", width - Len(s)) \o s

\* The index of key in the dict d, 0 when absent (a key occurs once).
DictIndex(d, key) ==
  IF \E i \in 1..Len(d) : d[i][1] = key
  THEN CHOOSE i \in 1..Len(d) : d[i][1] = key
  ELSE 0

DictHas(d, key) == DictIndex(d, key) # 0

DictGet(d, key) == d[DictIndex(d, key)][2]

\* d[key]= value that leaves the value of an old key as it was.
DictSetKeepsFirst(d, key, value) ==
  IF DictIndex(d, key) = 0 THEN Append(d, <<key, value>>) ELSE d

\* d[key]= value: a new key is appended, an old one keeps its place.
DictSet(d, key, value) ==
  LET i == DictIndex(d, key)
  IN  IF i = 0 THEN Append(d, <<key, value>>)
      ELSE [d EXCEPT ![i] = <<key, value>>]

\* d.update(e): the entries of e assigned to d one after the other.
DictUpdate(d, e) ==
  [i \in 1..Len(d) |->
     IF DictHas(e, d[i][1]) THEN <<d[i][1], DictGet(e, d[i][1])>> ELSE d[i]]
  \o SelectSeq(e, LAMBDA kv : ~DictHas(d, kv[1]))

DictKeys(d) == [i \in 1..Len(d) |-> d[i][1]]

DictValues(d) == [i \in 1..Len(d) |-> d[i][2]]

\* s.split(sep) for a one-character separator: the pieces between the
\* occurrences of sep, cur being the piece under way.
RECURSIVE SplitFrom(_, _, _, _)
SplitFrom(s, sep, i, cur) ==
  IF i > Len(s) THEN <<cur>>
  ELSE IF s[i] = sep THEN <<cur>> \o SplitFrom(s, sep, i + 1, <<>>)
  ELSE SplitFrom(s, sep, i + 1, Append(cur, s[i]))

Split(s, sep) == SplitFrom(s, sep, 1, <<>>)

IsSpace(c) == c = " "

\* s.strip()
RECURSIVE LStrip(_)
LStrip(s) == IF Len(s) > 0 /\ IsSpace(Head(s)) THEN LStrip(Tail(s)) ELSE s

RECURSIVE RStrip(_)
RStrip(s) ==
  IF Len(s) > 0 /\ IsSpace(s[Len(s)]) THEN RStrip(SubSeq(s, 1, Len(s) - 1)) ELSE s

\* s.strip() that strips nothing.
StripNothing(s) == s

Strip(s) == RStrip(LStrip(s))

\* sep.join(parts)
RECURSIVE Join(_, _)
Join(parts, sep) ==
  IF Len(parts) = 0 THEN <<>>
  ELSE IF Len(parts) = 1 THEN parts[1]
  ELSE parts[1] \o <<sep>> \o Join(Tail(parts), sep)

-----------------------------------------------------------------------------
(* Python floats. A float is held as the shortest decimal numeral that     *)
(* reads back as it (what repr computes, and one float has one such        *)
(* numeral): [neg, digs, decpt] is 0.d1d2...dn * 10^decpt, digs without    *)
(* leading or trailing zeros, zero being [digs |-> <<>>, decpt |-> 0].     *)

Float(neg, digs, decpt) == [neg |-> neg, digs |-> digs, decpt |-> decpt]

DigitOf(c) == (CHOOSE d \in 1..10 : Digits[d] = c) - 1

AllDigits(s) == \A i \in 1..Len(s) : IsDigit(s[i])

\* The int a string of digits denotes.
RECURSIVE NatOf(_)
NatOf(s) == IF Len(s) = 0 THEN 0
            ELSE 10 * NatOf(SubSeq(s, 1, Len(s) - 1)) + DigitOf(s[Len(s)])

RECURSIVE StripLeadingZeros(_)
StripLeadingZeros(s) ==
  IF Len(s) > 0 /\ Head(s) = "0" THEN StripLeadingZeros(Tail(s)) ELSE s

RECURSIVE StripTrailingZeros(_)
StripTrailingZeros(s) ==
  IF Len(s) > 0 /\ s[Len(s)] = "0"
  THEN StripTrailingZeros(SubSeq(s, 1, Len(s) - 1)) ELSE s

\* The float of the numeral 0.<digits> * 10^decpt, digits any digit string.
Normalize(neg, digits, decpt) ==
  LET lead == StripLeadingZeros(digits)
      digs == StripTrailingZeros(lead)
  IN  IF Len(digs) = 0 THEN Float(neg, <<>>, 0)
      ELSE Float(neg, digs, decpt - (Len(digits) - Len(lead)))

\* The exponent field of repr: a sign and at least two digits.
ExpField(e) ==
  (IF e < 0 THEN <<"-">> ELSE <<"+">>)
  \o zfill(StrNat(IF e < 0 THEN -e ELSE e), 2)

\* str(x) of a float x (float_repr_style short: the shortest numeral, in
\* exponent notation when decpt <= -4 or decpt > 16).
StrFloat(x) ==
  LET n == Len(x.digs)
      sign == IF x.neg THEN <<"-">> ELSE <<>>
      body ==
        IF n = 0 THEN <<"0", ".", "0">>
        ELSE IF x.decpt <= -4 \/ x.decpt > 16
          THEN <<x.digs[1]>>
               \o (IF n > 1 THEN <<".">> \o SubSeq(x.digs, 2, n) ELSE <<>>)
               \o <<"e">> \o ExpField(x.decpt - 1)
        ELSE IF x.decpt <= 0
          THEN <<"0", ".">> \o Repeat("0", -x.decpt) \o x.digs
        ELSE IF x.decpt >= n
          THEN x.digs \o Repeat("0", x.decpt - n) \o <<".", "0">>
        ELSE SubSeq(x.digs, 1, x.decpt) \o <<".">> \o SubSeq(x.digs, x.decpt + 1, n)
  IN  sign \o body

\* float(s): surrounding whitespace, a sign, digits with at most one point
\* and at least one digit, an optional exponent; ValueError otherwise.
ParseFloat(str) ==
  LET s == Strip(str)
      neg == Len(s) > 0 /\ s[1] = "-"
      signed == Len(s) > 0 /\ s[1] \in {"-", "+"}
      u == IF signed THEN Tail(s) ELSE s
      me == Split(u, "e")
      mant == Split(me[1], ".")
      intPart == mant[1]
      fracPart == IF Len(mant) = 2 THEN mant[2] ELSE <<>>
      expSigned == Len(me) = 2 /\ Len(me[2]) > 0 /\ me[2][1] \in {"-", "+"}
      expDigits == IF Len(me) # 2 THEN <<"0">>
                   ELSE IF expSigned THEN Tail(me[2]) ELSE me[2]
      expNeg == expSigned /\ me[2][1] = "-"
      wellFormed ==
        /\ Len(me) <= 2
        /\ Len(mant) <= 2
        /\ AllDigits(intPart) /\ AllDigits(fracPart)
        /\ Len(intPart) + Len(fracPart) > 0
        /\ Len(expDigits) > 0 /\ AllDigits(expDigits)
  IN  IF ~wellFormed THEN Raise("ValueError")
      ELSE Return(Normalize(neg, intPart \o fracPart,
                            Len(intPart)
                            + (IF expNeg THEN -NatOf(expDigits) ELSE NatOf(expDigits))))

-----------------------------------------------------------------------------
(* getCombinationDict and getCombinationExpr.                              *)

\* The loop of lines 171-174 over the terms loads[i..], retval the dict so
\* far: a term that does not split at '*' into two parts, or whose factor
\* is no float, raises ValueError.
RECURSIVE DictLoop(_, _, _)
DictLoop(loads, i, retval) ==
  IF i > Len(loads) THEN Return(retval)
  ELSE LET l == Strip(loads[i])
           parts == Split(l, "*")
       IN  IF Len(parts) # 2 THEN Raise("ValueError")
           ELSE LET factor == ParseFloat(parts[1])
                IN  IF factor.raised # "None" THEN factor
                    ELSE DictLoop(loads, i + 1,
                                  DictSet(retval, parts[2], factor.retval))

getCombinationDict(loadCombination) ==
  IF Len(loadCombination) > 0
  THEN DictLoop(Split(loadCombination, "+"), 1, <<>>)
  ELSE Return(<<>>)

\* str(factor)+'*'+key
Addend(factor, key) == StrFloat(factor) \o <<"*">> \o key

\* Lines 183-192: the addends of the dict in its order, joined by '+'.
getCombinationExpr(d) ==
  LET tmp == [i \in 1..Len(d) |-> Addend(d[i][2], d[i][1])]
  IN  Join(tmp, "+")

\* splitCombination with the two lists in each other's place.
splitCombinationSwapped(loadCombination_, loads_) ==
  LET d == getCombinationDict(loadCombination_)
  IN  IF d.raised # "None" THEN d
      ELSE LET In(kv) == \E i \in 1..Len(loads_) : loads_[i] = kv[1]
               Addends(list) == [i \in 1..Len(list) |-> Addend(list[i][2], list[i][1])]
           IN  Return(<<Join(Addends(SelectSeq(d.retval, LAMBDA kv : ~In(kv))), "+"),
                        Join(Addends(SelectSeq(d.retval, LAMBDA kv : In(kv))), "+")>>)

\* The loop of lines 202-208 over the entries combDict_[i..]: the addends
\* of the loads in tmp1, the others in tmp2.
RECURSIVE SplitLoop(_, _, _, _, _)
SplitLoop(combDict_, loads_, i, tmp1, tmp2) ==
  IF i > Len(combDict_) THEN <<tmp1, tmp2>>
  ELSE LET key == combDict_[i][1]
           addend == Addend(combDict_[i][2], key)
       IN  IF \E k \in 1..Len(loads_) : loads_[k] = key
           THEN SplitLoop(combDict_, loads_, i + 1, Append(tmp1, addend), tmp2)
           ELSE SplitLoop(combDict_, loads_, i + 1, tmp1, Append(tmp2, addend))

\* Lines 200-210.
splitCombination(loadCombination_, loads_) ==
  LET d == getCombinationDict(loadCombination_)
  IN  IF d.raised # "None" THEN d
      ELSE LET tmp == SplitLoop(d.retval, loads_, 1, <<>>, <<>>)
           IN  Return(<<Join(tmp[1], "+"), Join(tmp[2], "+")>>)

Letters ==
  {"A","B","C","D","E","F","G","H","I","J","K","L","M","N","O","P","Q","R",
   "S","T","U","V","W","X","Y","Z","a","b","c","d","e","f","g","h","i","j",
   "k","l","m","n","o","p","q","r","s","t","u","v","w","x","y","z"}

\* x.isalnum() for the characters of an expression.
IsAlnum(x) == IsDigit(x) \/ x \in Letters

\* getFileNameFromCombinationExpresion that keeps every character.
getFileNameFromCombinationExpresionAll(loadCombination_) == loadCombination_

\* Line 214: ''.join(x for x in loadCombination if x.isalnum())
getFileNameFromCombinationExpresion(loadCombination_) ==
  SelectSeq(loadCombination_, IsAlnum)

-----------------------------------------------------------------------------
(* The engine behind CombGenerator (loadCombinations.LoadCombGenerator).   *)
(* Its source is not among the Python files; it is modelled from the       *)
(* design of the enumerator, in the reading that reproduces the reference  *)
(* outputs of the tests. A factor is held in hundredths (135 is 1.35), a   *)
(* combination is the sequence of its terms <<action name, factor>>.       *)

Situations ==
  <<"SLSRare", "SLSFrequent", "SLSQuasiPermanent",
    "ULSTransient", "ULSAccidental", "ULSSeismic">>

SituationSet == { Situations[i] : i \in 1..Len(Situations) }

\* The partial safety factors of the containers the factors argument of
\* the constructor defines: favourable and unfavourable, for the ultimate
\* and for the other situations.
PartialSafetyFactors(psfName) ==
  CASE psfName = "permanent" -> [fav |-> 100, unf |-> 135, other |-> 100]
    [] psfName = "rail"      -> [fav |-> 0, unf |-> 145, other |-> 100]
    [] psfName = "thermal"   -> [fav |-> 0, unf |-> 150, other |-> 100]
    [] psfName = "wind"      -> [fav |-> 0, unf |-> 150, other |-> 100]
    [] psfName = "accidental" -> [fav |-> 100, unf |-> 100, other |-> 100]
    [] psfName = "seismic"   -> [fav |-> 130, unf |-> 130, other |-> 130]

\* The combination factors psi0, psi1, psi2 of the containers.
CombinationFactors(cfName) ==
  CASE cfName = "LM71_alone_uls" -> [psi0 |-> 80, psi1 |-> 80, psi2 |-> 0]
    [] cfName = "thermal"        -> [psi0 |-> 60, psi1 |-> 60, psi2 |-> 50]
    [] cfName = "wind"           -> [psi0 |-> 60, psi1 |-> 20, psi2 |-> 0]
    [] OTHER                     -> [psi0 |-> 100, psi1 |-> 100, psi2 |-> 100]

\* loadCombinations.Action(actionName, actionDescription) inserted in a
\* family with its factors; no relationships yet.
Action(family, actionName, cfName, psfName) ==
  [family |-> family, name |-> actionName, cf |-> cfName, psf |-> psfName,
   main |-> "None", incompatible |-> <<>>]

RegisteredNames(reg) == { reg[i].name : i \in 1..Len(reg) }

\* controlCombGenerator.insert: a name already registered is refused with
\* DuplicateNameError and nothing is inserted.
Insert(reg, family, actionName, cfName, psfName) ==
  IF actionName \in RegisteredNames(reg) THEN Raise("DuplicateNameError")
  ELSE Return(Append(reg, Action(family, actionName, cfName, psfName)))

\* relationships.appendMain that records any name.
AppendMainUnchecked(reg, dependsOn) ==
  Return([reg EXCEPT ![Len(reg)].main = dependsOn])

\* relationships.appendMain on the action inserted last: a name that is
\* not registered is refused with UnknownActionError.
AppendMain(reg, dependsOn) ==
  IF dependsOn \notin RegisteredNames(reg) THEN Raise("UnknownActionError")
  ELSE Return([reg EXCEPT ![Len(reg)].main = dependsOn])

\* relationships.appendIncompatible on the action inserted last.
AppendIncompatible(reg, actionNameRegex) ==
  [reg EXCEPT ![Len(reg)].incompatible = Append(@, actionNameRegex)]

\* The regular expressions in use are literal names, or a literal prefix
\* followed by ".*".
Matches(regex, actionName) ==
  LET n == Len(regex)
  IN  IF n >= 2 /\ regex[n - 1] = "." /\ regex[n] = "*"
      THEN /\ Len(actionName) >= n - 2
           /\ SubSeq(actionName, 1, n - 2) = SubSeq(regex, 1, n - 2)
      ELSE regex = actionName

Family(reg, family) == SelectSeq(reg, LAMBDA a : a.family = family)

\* The sequences picking one element of each choices[i], the first
\* position varying slowest.
RECURSIVE Product(_)
Product(choices) ==
  IF Len(choices) = 0 THEN << <<>> >>
  ELSE LET rest == Product(Tail(choices))
           \* the variants that start with the k-th choice of the head
           From(k) == [j \in 1..Len(rest) |-> <<Head(choices)[k]>> \o rest[j]]
           Cat[k \in 0..Len(Head(choices))] ==
             IF k = 0 THEN <<>> ELSE Cat[k - 1] \o From(k)
       IN  Cat[Len(Head(choices))]

\* The first permanent action only.
PermanentVariantsFirstOnly(reg, situation) ==
  LET every == Family(reg, "permanent")
      perms == IF Len(every) = 0 THEN every ELSE <<every[1]>>
      FactorsOf(a) ==
        LET g == PartialSafetyFactors(a.psf)
        IN  IF situation = "ULSTransient" /\ g.fav # g.unf
            THEN << <<a.name, g.fav>>, <<a.name, g.unf>> >>
            ELSE << <<a.name, g.other>> >>
  IN  Product([i \in 1..Len(perms) |-> FactorsOf(perms[i])])

\* Step 2: every permanent action is present, with its favourable and
\* with its unfavourable factor when the two differ.
PermanentVariants(reg, situation) ==
  LET perms == Family(reg, "permanent")
      FactorsOf(a) ==
        LET g == PartialSafetyFactors(a.psf)
        IN  IF situation = "ULSTransient" /\ g.fav # g.unf
            THEN << <<a.name, g.fav>>, <<a.name, g.unf>> >>
            ELSE << <<a.name, g.other>> >>
  IN  Product([i \in 1..Len(perms) |-> FactorsOf(perms[i])])

\* Every variable action with its full factor, whatever its role.
VariableFactorAlwaysLeading(a, situation, leading) ==
  PartialSafetyFactors(a.psf).unf

\* The factor of a variable action: leading or accompanying.
VariableFactor(a, situation, leading) ==
  LET g == PartialSafetyFactors(a.psf)
      psi == CombinationFactors(a.cf)
  IN  CASE situation = "ULSTransient" ->
             IF leading THEN g.unf ELSE (g.unf * psi.psi0) \div 100
        [] situation = "SLSRare" ->
             IF leading THEN g.other ELSE (g.other * psi.psi0) \div 100
        [] situation = "SLSFrequent" -> (g.other * psi.psi1) \div 100
        [] OTHER -> (g.other * psi.psi2) \div 100

\* The subsequences of s: those without its first element, then those
\* with it.
RECURSIVE SubSeqs(_)
SubSeqs(s) ==
  IF Len(s) = 0 THEN << <<>> >>
  ELSE LET rest == SubSeqs(Tail(s))
       IN  rest \o [j \in 1..Len(rest) |-> <<Head(s)>> \o rest[j]]

\* s with its repeated elements kept.
DistinctNot(s) == s

\* s without its repeated elements, the first occurrence kept.
RECURSIVE Distinct(_)
Distinct(s) ==
  IF Len(s) = 0 THEN <<>>
  ELSE LET front == Distinct(SubSeq(s, 1, Len(s) - 1))
           last == s[Len(s)]
       IN  IF \E i \in 1..Len(front) : front[i] = last THEN front
           ELSE Append(front, last)

\* The concatenation of the sequences of a sequence.
RECURSIVE Flatten(_)
Flatten(ss) == IF Len(ss) = 0 THEN <<>> ELSE Head(ss) \o Flatten(Tail(ss))

\* Step 3: each variable action in turn leads, with every subset of the
\* others accompanying it; the terms stand in registration order, a term
\* with factor zero is left out, and so is a combination without terms.
VariableCombinations(reg, situation) ==
  LET vars_ == Family(reg, "variable")
      n == Len(vars_)
      Others(j) == SelectSeq([i \in 1..n |-> i], LAMBDA i : i # j)
      Terms(j, picked) ==
        LET present == SelectSeq([i \in 1..n |-> i],
                         LAMBDA i : i = j \/ \E k \in 1..Len(picked) : picked[k] = i)
            all == [k \in 1..Len(present) |->
                      <<vars_[present[k]].name,
                        VariableFactor(vars_[present[k]], situation, present[k] = j)>>]
        IN  SelectSeq(all, LAMBDA t : t[2] # 0)
      Leading(j) ==
        LET subs == SubSeqs(Others(j))
        IN  [k \in 1..Len(subs) |-> Terms(j, subs[k])]
      all == Flatten([j \in 1..n |-> Leading(j)])
  IN  Distinct(SelectSeq(all, LAMBDA c : Len(c) > 0))

\* Step 4 with the patterns of an action matched against its own name too.
CompatibleWithItself(reg, comb) ==
  LET present == { comb[i][1] : i \in 1..Len(comb) }
      acts == { reg[i] : i \in 1..Len(reg) }
  IN  \A a \in acts : a.name \in present =>
        /\ a.main # "None" => a.main \in present
        /\ \A b \in present :
             \A k \in 1..Len(a.incompatible) : ~Matches(a.incompatible[k], b)

\* Step 4: every action present has the action it depends on present, and
\* no other action present matches one of its incompatibility patterns.
Compatible(reg, comb) ==
  LET present == { comb[i][1] : i \in 1..Len(comb) }
      acts == { reg[i] : i \in 1..Len(reg) }
  IN  \A a \in acts : a.name \in present =>
        /\ a.main # "None" => a.main \in present
        /\ \A b \in present \ {a.name} :
             \A k \in 1..Len(a.incompatible) : ~Matches(a.incompatible[k], b)

\* The combinations p + v of p in ps and v in vs, grouped by p.
Cartesian(ps, vs) ==
  Flatten([i \in 1..Len(ps) |-> [j \in 1..Len(vs) |-> ps[i] \o vs[j]]])

Admissible(reg, list) ==
  Distinct(SelectSeq(list, LAMBDA c : Len(c) > 0 /\ Compatible(reg, c)))

\* Permanent actions alone, then with each combination of variable ones.
ULSTransient(reg) ==
  LET ps == PermanentVariants(reg, "ULSTransient")
  IN  Admissible(reg, ps \o Cartesian(ps, VariableCombinations(reg, "ULSTransient")))

\* Serviceability: permanent actions with each combination of variable
\* ones (alone when there is none).
SLS(reg, situation) ==
  LET ps == PermanentVariants(reg, situation)
      vs == VariableCombinations(reg, situation)
  IN  Admissible(reg, IF Len(vs) = 0 THEN ps ELSE Cartesian(ps, vs))

\* Step 5: one accidental (seismic) action at a time, with the permanent
\* actions and the variable ones at psi2, or none of them.
ULSExceptional(reg, situation, family) ==
  LET ps == PermanentVariants(reg, situation)
      vs == << <<>> >> \o VariableCombinations(reg, situation)
      as == Family(reg, family)
      base == Cartesian(ps, vs)
      With(a) == [i \in 1..Len(base) |->
                    Append(base[i], <<a.name, PartialSafetyFactors(a.psf).unf>>)]
  IN  Admissible(reg, Flatten([k \in 1..Len(as) |-> With(as[k])]))

\* genera(): the lists of every situation, computed anew.
Genera(reg) ==
  [SLSRare |-> SLS(reg, "SLSRare"),
   SLSFrequent |-> SLS(reg, "SLSFrequent"),
   SLSQuasiPermanent |-> SLS(reg, "SLSQuasiPermanent"),
   ULSTransient |-> ULSTransient(reg),
   ULSAccidental |-> ULSExceptional(reg, "ULSAccidental", "accidental"),
   ULSSeismic |-> ULSExceptional(reg, "ULSSeismic", "seismic")]

NoCombinations == [sit \in SituationSet |-> <<>>]

\* The factor as the engine prints it: two decimals.
FormatFactor(h) ==
  StrNat(h \div 100) \o <<".">> \o zfill(StrNat(h % 100), 2)

\* comb.name: the terms factor*action joined by " + ".
RECURSIVE CombName(_)
CombName(comb) ==
  IF Len(comb) = 0 THEN <<>>
  ELSE LET term == FormatFactor(comb[1][2]) \o <<"*">> \o comb[1][1]
       IN  IF Len(comb) = 1 THEN term
           ELSE term \o <<" ", "+", " ">> \o CombName(Tail(comb))

-----------------------------------------------------------------------------
(* CombGenerator.                                                          *)

\* The loop of lines 44-45.
RECURSIVE AppendIncompatibles(_, _)
AppendIncompatibles(reg, incompatibleActions) ==
  IF Len(incompatibleActions) = 0 THEN reg
  ELSE AppendIncompatibles(AppendIncompatible(reg, Head(incompatibleActions)),
                           Tail(incompatibleActions))

\* The exception e of a call that leaves the registry as reg.
RaisedWith(e, reg) == [raised |-> e, retval |-> reg]

\* newAction that forgets dependsOn.
newActionNoDependsOn(reg, family, actionName, cfName, psfName, dependsOn, incompatibleActions) ==
  LET ins == Insert(reg, family, actionName, cfName, psfName)
  IN  IF ins.raised # "None" THEN RaisedWith(ins.raised, reg)
      ELSE LET r1 == ins
           IN  IF r1.raised # "None" THEN RaisedWith(r1.raised, ins.retval)
               ELSE Return(IF incompatibleActions = "None" THEN r1.retval
                           ELSE AppendIncompatibles(r1.retval, incompatibleActions))

\* newAction that appends the first regular expression only.
newActionFirstRegexOnly(reg, family, actionName, cfName, psfName, dependsOn, incompatibleActions) ==
  LET ins == Insert(reg, family, actionName, cfName, psfName)
  IN  IF ins.raised # "None" THEN RaisedWith(ins.raised, reg)
      ELSE LET r1 == IF dependsOn = "None" THEN ins
                     ELSE AppendMain(ins.retval, dependsOn)
           IN  IF r1.raised # "None" THEN RaisedWith(r1.raised, ins.retval)
               ELSE Return(IF incompatibleActions = "None" THEN r1.retval
                           ELSE AppendIncompatibles(r1.retval, SubSeq(incompatibleActions, 1, 1)))

\* newAction that recovers from a refused insertion and returns normally.
newActionRecovers(reg, family, actionName, cfName, psfName, dependsOn, incompatibleActions) ==
  LET ins == Insert(reg, family, actionName, cfName, psfName)
  IN  IF ins.raised # "None" THEN Return(reg)
      ELSE LET r1 == IF dependsOn = "None" THEN ins
                     ELSE AppendMain(ins.retval, dependsOn)
           IN  IF r1.raised # "None" THEN RaisedWith(r1.raised, ins.retval)
               ELSE Return(IF incompatibleActions = "None" THEN r1.retval
                           ELSE AppendIncompatibles(r1.retval, incompatibleActions))

\* Lines 39-46: the exception, if any, and the registry as the call leaves
\* it. insert (line 40) has run when appendMain (line 42) raises, and the
\* loop of lines 43-45 has not.
newAction(reg, family, actionName, cfName, psfName, dependsOn, incompatibleActions) ==
  LET ins == Insert(reg, family, actionName, cfName, psfName)
  IN  IF ins.raised # "None" THEN RaisedWith(ins.raised, reg)
      ELSE LET r1 == IF dependsOn = "None" THEN ins
                     ELSE AppendMain(ins.retval, dependsOn)
           IN  IF r1.raised # "None" THEN RaisedWith(r1.raised, ins.retval)
               ELSE Return(IF incompatibleActions = "None" THEN r1.retval
                           ELSE AppendIncompatibles(r1.retval, incompatibleActions))

\* computeCombinations that does not run genera().
computeCombinationsNothing(reg) == NoCombinations

\* computeCombinations that adds the new combinations to the lists held.
computeCombinationsAccumulating(reg) ==
  [sit \in SituationSet |-> container[sit] \o Genera(reg)[sit]]

\* Lines 48-50.
computeCombinations(reg) == Genera(reg)

\* getSLSCharacteristicCombinations returning the frequent combinations.
getSLSCharacteristicCombinationsOther(lc) == lc.SLSFrequent

getSLSCharacteristicCombinations(lc) == lc.SLSRare

getSLSFrequentCombinations(lc) == lc.SLSFrequent

getSLSQuasiPermanentCombinations(lc) == lc.SLSQuasiPermanent

\* getULSTransientCombinations returning the list of another situation.
getULSTransientCombinationsOther(lc) == lc.SLSRare

getULSTransientCombinations(lc) == lc.ULSTransient

\* getULSAccidentalCombinations returning the seismic combinations.
getULSAccidentalCombinationsOther(lc) == lc.ULSSeismic

getULSAccidentalCombinations(lc) == lc.ULSAccidental

getULSSeismicCombinations(lc) == lc.ULSSeismic

-----------------------------------------------------------------------------
(* getNamedCombinations (module function).                                 *)

RECURSIVE FloorLog10(_)
FloorLog10(n) == IF n < 10 THEN 0 ELSE 1 + FloorLog10(n \div 10)

\* The arguments x for which the double quotient log(x)/log(10.0) that
\* math.log(x, 10) returns lies below the integer log10(x):
\* math.log(1000, 10) is 2.9999999999999996 and math.log(1000000, 10) is
\* 5.999999999999999; every other x up to 2000000 truncates to floor(log10 x).
LogBelowInteger == {1000, 1000000}

\* int(math.log(sz, 10)) for sz >= 1.
IntMathLog10(sz) ==
  IF sz \in LogBelowInteger THEN FloorLog10(sz) - 1 ELSE FloorLog10(sz)

\* math.log(sz, 10): ValueError (math domain error) for sz = 0.
MathLog10(sz) == IF sz <= 0 THEN Raise("ValueError") ELSE Return(IntMathLog10(sz))

\* A key made of the last digit of the index only.
NameKeyLastDigit(pfx, count, szLength) ==
  pfx \o zfill(StrNat(count % 10), szLength)

\* A key without padding.
NameKeyUnpadded(pfx, count, szLength) == pfx \o StrNat(count)

\* NameKey with the index counted from 1.
NameKeyFromOne(pfx, count, szLength) == pfx \o zfill(StrNat(count + 1), szLength)

\* key= prefix+str(count).zfill(szLength)
NameKey(pfx, count, szLength) == pfx \o zfill(StrNat(count), szLength)

\* The dict that lines 263-265 build from the list positions lo..hi
\* (count = position - 1). Inserting the entries one after the other into an
\* empty dict gives the dict of lo..mid updated with the dict of mid+1..hi;
\* the range is halved to keep the evaluation shallow for long lists.
RECURSIVE NameLoop(_, _, _, _, _)
NameLoop(combs, pfx, szLength, lo, hi) ==
  IF lo > hi THEN <<>>
  ELSE IF lo = hi
    THEN DictSet(<<>>, NameKey(pfx, lo - 1, szLength), combs[lo])
    ELSE LET mid == (lo + hi) \div 2
         IN  DictUpdate(NameLoop(combs, pfx, szLength, lo, mid),
                        NameLoop(combs, pfx, szLength, mid + 1, hi))

\* getNamedCombinations without the guard sz > 0 of line 261.
getNamedCombinationsNoGuard(combs, pfx) ==
  LET sz == Len(combs)
      lg == MathLog10(sz)
  IN  IF lg.raised # "None" THEN lg
      ELSE Return(NameLoop(combs, pfx, lg.retval + 1, 1, sz))

getNamedCombinations(combs, pfx) ==
  LET sz == Len(combs)
  IN  IF sz > 0
      THEN LET lg == MathLog10(sz)
           IN  IF lg.raised # "None" THEN lg
               ELSE Return(NameLoop(combs, pfx, lg.retval + 1, 1, sz))
      ELSE Return(<<>>)

-----------------------------------------------------------------------------
(* CombGenerator.getNamedCombinations, getLoadCombinationsDict and the two *)
(* writeXCLoadCombinations.                                                *)

\* getNamedCombinations that names the accidental combinations with the
\* prefix of the transient ones.
getNamedCombinationsOfSharedPrefix(lc, situation) ==
  CASE situation = "SLSRare" ->
         getNamedCombinations(getSLSCharacteristicCombinations(lc), <<"S","L","S","R">>)
    [] situation = "SLSFrequent" ->
         getNamedCombinations(getSLSFrequentCombinations(lc), <<"S","L","S","F">>)
    [] situation = "SLSQuasiPermanent" ->
         getNamedCombinations(getSLSQuasiPermanentCombinations(lc), <<"S","L","S","Q","P">>)
    [] situation = "ULSTransient" ->
         getNamedCombinations(getULSTransientCombinations(lc), <<"U","L","S">>)
    [] situation = "ULSAccidental" ->
         getNamedCombinations(getULSAccidentalCombinations(lc), <<"U","L","S">>)
    [] situation = "ULSSeismic" ->
         getNamedCombinations(getULSSeismicCombinations(lc), <<"U","L","S","S">>)
    [] OTHER -> Raise("NameError")

\* Lines 101-124. For a situation that is none of the six, line 122 is
\* evaluated: the module binds no name lmsg (it imports math, sys and
\* loadCombinations only), so the call raises NameError.
getNamedCombinationsOf(lc, situation) ==
  CASE situation = "SLSRare" ->
         getNamedCombinations(getSLSCharacteristicCombinations(lc), <<"S","L","S","R">>)
    [] situation = "SLSFrequent" ->
         getNamedCombinations(getSLSFrequentCombinations(lc), <<"S","L","S","F">>)
    [] situation = "SLSQuasiPermanent" ->
         getNamedCombinations(getSLSQuasiPermanentCombinations(lc), <<"S","L","S","Q","P">>)
    [] situation = "ULSTransient" ->
         getNamedCombinations(getULSTransientCombinations(lc), <<"U","L","S">>)
    [] situation = "ULSAccidental" ->
         getNamedCombinations(getULSAccidentalCombinations(lc), <<"U","L","S","A">>)
    [] situation = "ULSSeismic" ->
         getNamedCombinations(getULSSeismicCombinations(lc), <<"U","L","S","S">>)
    [] OTHER -> Raise("NameError")

\* Lines 132-135 from situations[i] on; an exception leaves the loop.
RECURSIVE DictOfSituations(_, _, _, _)
DictOfSituations(lc, situations, i, retval) ==
  IF i > Len(situations) THEN Return(retval)
  ELSE LET nc == getNamedCombinationsOf(lc, situations[i])
       IN  IF nc.raised # "None" THEN nc
           ELSE DictOfSituations(lc, situations, i + 1,
                                 DictSet(retval, situations[i], nc.retval))

getLoadCombinationsDict(lc, situations) == DictOfSituations(lc, situations, 1, <<>>)

\* "combs= loadLoader.getLoadCombinations\n"
HeaderLine ==
  <<"c","o","m","b","s","="," ","l","o","a","d","L","o","a","d","e",
    "r",".","g","e","t","L","o","a","d","C","o","m","b","i","n","a",
    "t","i","o","n","s","\n">>

\* A statement with the name and the expression in each other's place.
StatementLineSwapped(key, comb) ==
  <<"c","o","m","b","="," ","c","o","m","b","s",".","n","e","w","L",
    "o","a","d","C","o","m","b","i","n","a","t","i","o","n","(">>
  \o <<"\"">> \o CombName(comb) \o <<"\"", ",", "\"">> \o key
  \o <<"\"", ")", "\n">>

\* 'comb= combs.newLoadCombination(' + '"'+key+'","'+comb.name+'")\n'
StatementLine(key, comb) ==
  <<"c","o","m","b","="," ","c","o","m","b","s",".","n","e","w","L",
    "o","a","d","C","o","m","b","i","n","a","t","i","o","n","(">>
  \o <<"\"">> \o key \o <<"\"", ",", "\"">> \o CombName(comb)
  \o <<"\"", ")", "\n">>

\* A sink: sys.stdout, or the file open(outputFileName,'w') returns.
NoFile == [name |-> "None", closed |-> FALSE, lines |-> <<>>]

Open(outputFileName) ==
  [name |-> IF outputFileName = "None" THEN "sys.stdout" ELSE outputFileName,
   closed |-> FALSE, lines |-> <<>>]

Write(sink, line) == [sink EXCEPT !.lines = Append(@, line)]

\* f.flush() for sys.stdout, f.close() for a file.
FlushOrClose(sink) ==
  IF sink.name = "sys.stdout" THEN sink ELSE [sink EXCEPT !.closed = TRUE]

\* The statements of one named dict, in its order.
RECURSIVE WriteStatements(_, _, _)
WriteStatements(sink, namedCombinations, i) ==
  IF i > Len(namedCombinations) THEN sink
  ELSE WriteStatements(
         Write(sink, StatementLine(namedCombinations[i][1], namedCombinations[i][2])),
         namedCombinations, i + 1)

\* Lines 149-155: the dicts of the situations, in the order of the dict.
RECURSIVE WriteSituations(_, _, _)
WriteSituations(sink, byIt, i) ==
  IF i > Len(byIt) THEN sink
  ELSE WriteSituations(WriteStatements(sink, byIt[i][2], 1), byIt, i + 1)

\* CombGenerator.writeXCLoadCombinations, lines 143-159: the sink and the
\* exception as the call leaves them. No statement of the method runs
\* after an exception: the sink stays as it was when it was raised.
writeXCLoadCombinationsOf(lc, situations, outputFileName) ==
  LET f0 == Write(Open(outputFileName), HeaderLine)
      d == getLoadCombinationsDict(lc, situations)
  IN  IF d.raised # "None" THEN [raised |-> d.raised, f |-> f0]
      ELSE [raised |-> "None", f |-> FlushOrClose(WriteSituations(f0, d.retval, 1))]

\* prefix+str(count) with prefix None raises TypeError.
getNamedCombinationsChecked(combList, pfx) ==
  IF pfx = "None" /\ Len(combList) > 0 THEN Raise("TypeError")
  ELSE getNamedCombinations(combList, IF pfx = "None" THEN <<>> ELSE pfx)

\* The module function writeXCLoadCombinations, lines 275-290.
writeXCLoadCombinations(pfx, combList, outputFileName) ==
  LET f0 == Write(Open(outputFileName), HeaderLine)
      namedCombinations == getNamedCombinationsChecked(combList, pfx)
  IN  IF namedCombinations.raised # "None"
      THEN [raised |-> namedCombinations.raised, f |-> f0]
      ELSE [raised |-> "None",
            f |-> FlushOrClose(WriteStatements(f0, namedCombinations.retval, 1))]

-----------------------------------------------------------------------------
(* The namer as a state machine: Init draws the arguments, the action is   *)
(* the call.                                                               *)

Prefixes ==
  { <<"S","L","S","R">>, <<"S","L","S","F">>, <<"S","L","S","Q","P">>,
    <<"U","L","S">>, <<"U","L","S","A">>, <<"U","L","S","S">>,
    <<"E","L","U">>, <<>> }

\* A list of sz combinations; the combinations are told apart by their
\* position in the list the engine emitted.
CombList(sz) == [i \in 1..sz |-> i]

ExprIdle ==
  /\ combDict = <<>>
  /\ expr = NoCall
  /\ parsed = NoCall

TextIdle ==
  /\ combExpr = <<>>
  /\ written = [terms |-> <<>>, spaced |-> FALSE]
  /\ desiredLoads = <<>>
  /\ combinationDict = NoCall
  /\ split = NoCall
  /\ fileName = NoCall

\* A generator just constructed (lines 21-25): no action, nothing computed.
GenInit ==
  /\ registry = <<>>
  /\ calls = <<>>
  /\ container = NoCombinations
  /\ generatedFrom = -1
  /\ raised = "None"
  /\ outFile = NoFile
  /\ request = NoRequest
  /\ result = NoCall
  /\ runs = 0

InitNamer ==
  /\ \E sz \in SzSet : loadCombinations = CombList(sz)
  /\ prefix \in Prefixes
  /\ named = NoCall
  /\ ExprIdle
  /\ TextIdle
  /\ GenInit

CallGetNamedCombinations ==
  /\ named = NoCall
  /\ named' = getNamedCombinations(loadCombinations, prefix)
  /\ UNCHANGED <<loadCombinations, prefix>>
  /\ UNCHANGED exprVars
  /\ UNCHANGED genVars
  /\ UNCHANGED textVars

NextNamer == CallGetNamedCombinations

SpecNamer == InitNamer /\ [][NextNamer]_vars

-----------------------------------------------------------------------------
(* The expression utilities as a state machine: Init draws a dictionary,   *)
(* the actions render it and parse the rendering back.                     *)

ActionNames == { <<"G">>, <<"G","1">>, <<"Q","w","i","n","d">> }

\* 0.0, 1.0, 1.35, 0.9, -1.5, 100.0, 0.05, 1e-05, 1e+16, 2.5e+16
Factors ==
  { Float(FALSE, <<>>, 0), Float(FALSE, <<"1">>, 1),
    Float(FALSE, <<"1","3","5">>, 1), Float(FALSE, <<"9">>, 0),
    Float(TRUE, <<"1","5">>, 1), Float(FALSE, <<"1">>, 3),
    Float(FALSE, <<"5">>, -1), Float(FALSE, <<"1">>, -4),
    Float(FALSE, <<"1">>, 17), Float(FALSE, <<"2","5">>, 17) }

\* The dictionaries of at most n entries.
RECURSIVE DictsUpTo(_)
DictsUpTo(n) ==
  IF n = 0 THEN { <<>> }
  ELSE LET smaller == DictsUpTo(n - 1)
       IN  smaller \cup
           { Append(d, <<k, f>>) :
               d \in { e \in smaller : Len(e) = n - 1 },
               k \in ActionNames, f \in Factors }

\* A dict holds a key once.
IsDict(d) == \A i, j \in 1..Len(d) : d[i][1] = d[j][1] => i = j

NamerIdle ==
  /\ loadCombinations = <<>>
  /\ prefix = <<>>
  /\ named = NoCall

InitExpr ==
  /\ combDict \in { d \in DictsUpTo(MaxTerms) : IsDict(d) }
  /\ expr = NoCall
  /\ parsed = NoCall
  /\ NamerIdle
  /\ GenInit
  /\ TextIdle

CallGetCombinationExpr ==
  /\ expr = NoCall
  /\ expr' = Return(getCombinationExpr(combDict))
  /\ UNCHANGED <<combDict, parsed>>
  /\ UNCHANGED namerVars
  /\ UNCHANGED genVars
  /\ UNCHANGED textVars

CallGetCombinationDict ==
  /\ expr # NoCall
  /\ parsed = NoCall
  /\ parsed' = getCombinationDict(expr.retval)
  /\ UNCHANGED <<combDict, expr>>
  /\ UNCHANGED namerVars
  /\ UNCHANGED genVars
  /\ UNCHANGED textVars

NextExpr == CallGetCombinationExpr \/ CallGetCombinationDict

SpecExpr == InitExpr /\ [][NextExpr]_vars

-----------------------------------------------------------------------------
(* The utilities that read an expression, as a state machine: Init writes  *)
(* an expression from terms, the actions are the calls.                    *)

\* The factors as they are written: 1.00, 1.35, -1.5 and 1e16.
FactorNumerals ==
  { <<"1",".","0","0">>, <<"1",".","3","5">>, <<"-","1",".","5">>,
    <<"1","e","1","6">> }

\* The sequences of at most n terms <<numeral, action name>>.
RECURSIVE TermsUpTo(_)
TermsUpTo(n) ==
  IF n = 0 THEN { <<>> }
  ELSE LET smaller == TermsUpTo(n - 1)
       IN  smaller \cup
           { Append(t, <<f, k>>) :
               t \in { e \in smaller : Len(e) = n - 1 },
               f \in FactorNumerals, k \in ActionNames }

\* The expression of the terms: factor*action joined by '+', or by ' + '
\* as the engine writes it.
WriteExpression(terms, spaced) ==
  LET addends == [i \in 1..Len(terms) |-> terms[i][1] \o <<"*">> \o terms[i][2]]
      RECURSIVE Joined(_)
      Joined(i) ==
        IF i > Len(addends) THEN <<>>
        ELSE (IF i = 1 THEN <<>>
              ELSE IF spaced THEN <<" ", "+", " ">> ELSE <<"+">>)
             \o addends[i] \o Joined(i + 1)
  IN  Joined(1)

\* The loads arguments tried.
LoadsArguments ==
  { <<>>, << <<"G">> >>, << <<"Q","w","i","n","d">>, <<"G">> >>,
    << <<"G">>, <<"G","1">>, <<"Q","w","i","n","d">> >> }

InitText ==
  /\ \E terms \in TermsUpTo(MaxAddends), spaced \in BOOLEAN :
       /\ written = [terms |-> terms, spaced |-> spaced]
       /\ combExpr = WriteExpression(terms, spaced)
  /\ desiredLoads = <<>>
  /\ combinationDict = NoCall
  /\ split = NoCall
  /\ fileName = NoCall
  /\ NamerIdle
  /\ ExprIdle
  /\ GenInit

CallGetCombinationDictOf ==
  /\ combinationDict = NoCall
  /\ combinationDict' = getCombinationDict(combExpr)
  /\ UNCHANGED <<combExpr, written, desiredLoads, split, fileName>>
  /\ UNCHANGED <<namerVars, exprVars, genVars>>

CallSplitCombination ==
  /\ split = NoCall
  /\ \E l \in LoadsArguments :
       /\ desiredLoads' = l
       /\ split' = splitCombination(combExpr, l)
  /\ UNCHANGED <<combExpr, written, combinationDict, fileName>>
  /\ UNCHANGED <<namerVars, exprVars, genVars>>

CallGetFileNameFromCombinationExpresion ==
  /\ fileName = NoCall
  /\ fileName' = Return(getFileNameFromCombinationExpresion(combExpr))
  /\ UNCHANGED <<combExpr, written, desiredLoads, combinationDict, split>>
  /\ UNCHANGED <<namerVars, exprVars, genVars>>

NextText ==
  \/ CallGetCombinationDictOf
  \/ CallSplitCombination
  \/ CallGetFileNameFromCombinationExpresion

SpecText == InitText /\ [][NextText]_vars

-----------------------------------------------------------------------------
(* The generator as a state machine: actions are registered, the           *)
(* combinations are computed, in any interleaving.                         *)

NewActionCall(family, actionName, cfName, psfName, dependsOn, incompatibleActions) ==
  [family |-> family, actionName |-> actionName,
   combinationFactorsName |-> cfName, partialSafetyFactorsName |-> psfName,
   dependsOn |-> dependsOn, incompatibleActions |-> incompatibleActions]

\* The newAction calls a script may make, in the order it makes them:
\* permanent loads G and G2, rail traffic Q (or a load Q with the thermal
\* factors), braking B that needs Q, thermal T, wind W, the exclusive
\* thermal loads Q3A1 and Q3A2, accidental A1 and A3, earthquake A2.
Catalogue ==
  << NewActionCall("permanent", <<"G">>, "permanent", "permanent", "None", "None"),
     NewActionCall("permanent", <<"G","2">>, "permanent", "permanent", "None", "None"),
     NewActionCall("variable", <<"Q">>, "LM71_alone_uls", "rail", "None", "None"),
     NewActionCall("variable", <<"Q">>, "thermal", "thermal", "None", "None"),
     NewActionCall("variable", <<"B">>, "LM71_alone_uls", "rail", <<"Q">>, "None"),
     NewActionCall("variable", <<"T">>, "thermal", "thermal", "None", "None"),
     NewActionCall("variable", <<"W">>, "wind", "wind", "None", "None"),
     NewActionCall("variable", <<"Q","3","A","1">>, "thermal", "thermal", "None",
                   << <<"Q","3","A",".","*">>, <<"T">> >>),
     NewActionCall("variable", <<"Q","3","A","2">>, "thermal", "thermal", "None",
                   << <<"Q","3","A",".","*">> >>),
     NewActionCall("accidental", <<"A","1">>, "accidental", "accidental", "None", "None"),
     NewActionCall("accidental", <<"A","3">>, "accidental", "accidental", "None", "None"),
     NewActionCall("seismic", <<"A","2">>, "seismic", "seismic", "None", "None") >>

CatalogueIndex(c) == CHOOSE k \in 1..Len(Catalogue) : Catalogue[k] = c

\* The place in the catalogue of the last call that returned.
LastCall == IF Len(calls) = 0 THEN 1 ELSE CatalogueIndex(calls[Len(calls)])

Init ==
  /\ GenInit
  /\ NamerIdle
  /\ ExprIdle
  /\ TextIdle

CallNewAction ==
  \E k \in LastCall..Len(Catalogue) :
    LET c == Catalogue[k]
        r == newAction(registry, c.family, c.actionName, c.combinationFactorsName,
                       c.partialSafetyFactorsName, c.dependsOn, c.incompatibleActions)
    IN  /\ Len(registry) < MaxActions
        /\ registry' = r.retval
        /\ calls' = IF Len(r.retval) > Len(registry) THEN Append(calls, c)
                     ELSE calls
        /\ raised' = r.raised
        /\ request' = Request("newAction", c)
        /\ UNCHANGED <<container, generatedFrom, outFile, result, runs>>
        /\ UNCHANGED <<namerVars, exprVars, textVars>>

CallComputeCombinations ==
  /\ runs < MaxRuns
  /\ runs' = runs + 1
  /\ container' = computeCombinations(registry)
  /\ generatedFrom' = Len(registry)
  /\ raised' = "None"
  /\ request' = Request("computeCombinations", <<>>)
  /\ UNCHANGED <<registry, calls, outFile, result>>
  /\ UNCHANGED <<namerVars, exprVars, textVars>>

Next == CallNewAction \/ CallComputeCombinations

Spec == Init /\ [][Next]_vars

DefaultSituations == Situations

\* The situations arguments tried: the default, one situation, a situation
\* under the name the design documents give it, none.
SituationLists ==
  { DefaultSituations, <<"ULSTransient">>,
    <<"ULSTransient", "SLSCharacteristic">>, <<>>,
    <<"ULSSeismic", "ULSTransient">>, <<"ULSTransient", "ULSTransient">> }

\* The situation arguments tried: the six, and the name the design
\* documents give the first.
SituationArguments == SituationSet \cup {"SLSCharacteristic"}

\* lcg.getNamedCombinations(situation)
CallGetNamedCombinationsOf ==
  \E situation \in SituationArguments :
    /\ result' = getNamedCombinationsOf(container, situation)
    /\ raised' = result'.raised
    /\ request' = Request("CombGenerator.getNamedCombinations", situation)
    /\ UNCHANGED <<registry, calls, container, generatedFrom, outFile, runs>>
    /\ UNCHANGED <<namerVars, exprVars, textVars>>

\* lcg.getLoadCombinationsDict(situations)
CallGetLoadCombinationsDict ==
  \E situations \in SituationLists :
    /\ result' = getLoadCombinationsDict(container, situations)
    /\ raised' = result'.raised
    /\ request' = Request("getLoadCombinationsDict", situations)
    /\ UNCHANGED <<registry, calls, container, generatedFrom, outFile, runs>>
    /\ UNCHANGED <<namerVars, exprVars, textVars>>

OutputFileNames == {"None", "combinations.py"}

\* The prefix arguments tried: a string, and None.
PrefixArguments == << <<"E","L","U">>, "None" >>

\* lcg.writeXCLoadCombinations(situations, outputFileName)
CallWriteXCLoadCombinationsOf ==
  \E situations \in SituationLists, outputFileName \in OutputFileNames :
    LET r == writeXCLoadCombinationsOf(container, situations, outputFileName)
    IN  /\ outFile' = r.f
        /\ raised' = r.raised
        /\ request' = Request("CombGenerator.writeXCLoadCombinations",
                              [situations |-> situations,
                               outputFileName |-> outputFileName])
        /\ UNCHANGED <<registry, calls, container, generatedFrom, result, runs>>
        /\ UNCHANGED <<namerVars, exprVars, textVars>>

\* writeXCLoadCombinations(prefix, loadCombinations, outputFileName) on a
\* list of the generator.
CallWriteXCLoadCombinations ==
  \E p \in 1..Len(PrefixArguments),
     situation \in {"ULSTransient", "ULSAccidental"},
     outputFileName \in OutputFileNames :
    LET r == writeXCLoadCombinations(PrefixArguments[p], container[situation],
                                     outputFileName)
    IN  /\ outFile' = r.f
        /\ raised' = r.raised
        /\ request' = Request("writeXCLoadCombinations",
                              [prefix |-> PrefixArguments[p],
                               loadCombinations |-> container[situation],
                               outputFileName |-> outputFileName])
        /\ UNCHANGED <<registry, calls, container, generatedFrom, result, runs>>
        /\ UNCHANGED <<namerVars, exprVars, textVars>>

\* The scripts whose combinations are written, as places of the catalogue:
\* no action; G; G and Q; G and T; G, Q, T and the earthquake A2 (the
\* seismic test); G, Q3A1, Q3A2 and the accidental A1; G, G2, Q, B; G, Q
\* and the accidental A1, A3.
Scripts ==
  { <<>>, <<1>>, <<1, 4>>, <<1, 6>>, <<1, 3, 6, 12>>, <<1, 8, 9, 10>>,
    <<1, 2, 3, 5>>, <<1, 3, 10, 11>> }

\* The registry after the newAction calls of a script.
RECURSIVE RegistryOf(_)
RegistryOf(script) ==
  IF Len(script) = 0 THEN <<>>
  ELSE LET c == Catalogue[script[Len(script)]]
       IN  newAction(RegistryOf(SubSeq(script, 1, Len(script) - 1)),
                     c.family, c.actionName, c.combinationFactorsName,
                     c.partialSafetyFactorsName, c.dependsOn,
                     c.incompatibleActions).retval

\* A generator on which a script has registered its actions.
InitWrite ==
  /\ \E script \in Scripts :
       /\ registry = RegistryOf(script)
       /\ calls = [i \in 1..Len(script) |-> Catalogue[script[i]]]
  /\ container = NoCombinations
  /\ generatedFrom = -1
  /\ raised = "None"
  /\ outFile = NoFile
  /\ request = NoRequest
  /\ result = NoCall
  /\ runs = 0
  /\ NamerIdle
  /\ ExprIdle
  /\ TextIdle

NextWrite ==
  \/ CallComputeCombinations
  \/ CallGetNamedCombinationsOf
  \/ CallGetLoadCombinationsDict
  \/ CallWriteXCLoadCombinationsOf
  \/ CallWriteXCLoadCombinations

SpecWrite == InitWrite /\ [][NextWrite]_vars



-----------------------------------------------------------------------------
(* Properties of getNamedCombinations.                                     *)

Called == named # NoCall

\* key is pfx followed by the decimal numeral of n, left-padded with zeros.
IsPaddedIndex(key, pfx, n) ==
  /\ Len(key) >= Len(pfx) + Len(StrNat(n))
  /\ SubSeq(key, 1, Len(pfx)) = pfx
  /\ LET suffix == SubSeq(key, Len(pfx) + 1, Len(key))
         k == Len(suffix) - Len(StrNat(n))
     IN  suffix = Repeat("0", k) \o StrNat(n)

\* C1: for a non-empty list, the i-th entry of the returned mapping (in
\* iteration order) is the i-th combination of the list, and its key is the
\* prefix followed by the zero-padded decimal index i - 1.
C1_NamesInEmissionOrder ==
  (Called /\ Len(loadCombinations) > 0) =>
    /\ named.raised = "None"
    /\ Len(named.retval) = Len(loadCombinations)
    /\ \A i \in 1..Len(loadCombinations) :
         /\ named.retval[i][2] = loadCombinations[i]
         /\ IsPaddedIndex(named.retval[i][1], prefix, i - 1)

C1_Witness ==
  /\ Called
  /\ Len(loadCombinations) = 101
  /\ prefix = <<"U","L","S">>
  /\ named.retval[11] = <<(<<"U","L","S","0","1","0">>), 11>>
  /\ named.retval[101] = <<(<<"U","L","S","1","0","0">>), 101>>

\* C2 as claimed: the numeric suffix of every name has exactly
\* floor(log10(n)) + 1 characters, n the number of combinations.
C2_SuffixWidthIsFloorLog10 ==
  (Called /\ Len(loadCombinations) > 0) =>
    /\ named.raised = "None"
    /\ \A i \in 1..Len(named.retval) :
         Len(named.retval[i][1]) - Len(prefix)
           = FloorLog10(Len(loadCombinations)) + 1

\* C3: an empty list is named without an exception and gives the empty
\* mapping.
C3_EmptyListEmptyMapping ==
  (Called /\ Len(loadCombinations) = 0) => named = Return(<<>>)

C3_Witness ==
  /\ loadCombinations = <<>>
  /\ prefix = <<"U","L","S">>
  /\ named = Return(<<>>)

-----------------------------------------------------------------------------
(* Properties of the expression utilities.                                 *)

\* Python's d1 == d2 for dicts: the same keys with equal values, in any
\* order.
DictEq(d1, d2) ==
  /\ Len(d1) = Len(d2)
  /\ \A i \in 1..Len(d1) :
       DictHas(d2, d1[i][1]) /\ DictGet(d2, d1[i][1]) = d1[i][2]

\* C4 as claimed: parsing the rendering of any dictionary returns, without
\* an exception, a dictionary equal to it.
C4_RoundTrip ==
  parsed # NoCall =>
    /\ parsed.raised = "None"
    /\ DictEq(parsed.retval, combDict)

-----------------------------------------------------------------------------
(* Properties of the generated combinations.                               *)

\* The names of the actions of a combination.
Present(comb) == { comb[i][1] : i \in 1..Len(comb) }

\* Every combination of every situation, as the generator holds them.
AllCombinations ==
  UNION { { container[sit][i] : i \in 1..Len(container[sit]) } : sit \in SituationSet }

\* The newAction calls made before genera() last ran.
CallsGenerated == SubSeq(calls, 1, generatedFrom)

\* C5: in no combination of any situation does an action stand with
\* another action whose name matches one of the patterns it was registered
\* with as incompatible.
C5_NoIncompatiblePair ==
  \A comb \in AllCombinations :
    \A k \in 1..Len(calls) :
      (calls[k].actionName \in Present(comb) /\ calls[k].incompatibleActions # "None") =>
        \A b \in Present(comb) \ {calls[k].actionName} :
          \A p \in 1..Len(calls[k].incompatibleActions) :
            ~Matches(calls[k].incompatibleActions[p], b)

\* Q3A1 (incompatible with Q3A.* and T), Q3A2 and T were registered and
\* each appears in a generated combination.
C5_Witness ==
  /\ generatedFrom = Len(registry)
  /\ \A nm \in { <<"Q","3","A","1">>, <<"Q","3","A","2">>, <<"T">> } :
       \E comb \in AllCombinations : nm \in Present(comb)

\* The k-th newAction call returned: the action it depends on, if any, was
\* registered when it was made.
Returned(k) ==
  calls[k].dependsOn # "None" =>
    \E j \in 1..(k - 1) : calls[j].actionName = calls[k].dependsOn

RECURSIVE Pow2(_)
Pow2(n) == IF n = 0 THEN 1 ELSE 2 * Pow2(n - 1)

\* N: the permanent actions whose two factors differ.
AmbiguousPermanents(cs) ==
  Len(SelectSeq(cs, LAMBDA c :
        /\ c.family = "permanent"
        /\ PartialSafetyFactors(c.partialSafetyFactorsName).fav
             # PartialSafetyFactors(c.partialSafetyFactorsName).unf))

\* M: the variable actions.
Variables(cs) == Len(SelectSeq(cs, LAMBDA c : c.family = "variable"))

NoRelationships(cs) ==
  \A k \in 1..Len(cs) : cs[k].dependsOn = "None" /\ cs[k].incompatibleActions = "None"

\* Every variable action accompanies with a factor that is neither zero
\* nor its leading factor.
DistinctRoles(cs) ==
  \A k \in 1..Len(cs) : cs[k].family = "variable" =>
    LET g == PartialSafetyFactors(cs[k].partialSafetyFactorsName).unf
        acc == (g * CombinationFactors(cs[k].combinationFactorsName).psi0) \div 100
    IN  acc # 0 /\ acc # g

Generated == generatedFrom >= 0

\* C7 as claimed, for the registries with a permanent action: the number of
\* ULS combinations is at most 2^N * (M + 1), and is that number when no
\* incompatibility or dependency was declared.
C7_CountTwoPowNTimesMPlusOne ==
  (Generated /\ AmbiguousPermanents(CallsGenerated) >= 1) =>
    LET n == Len(getULSTransientCombinations(container))
        bound == Pow2(AmbiguousPermanents(CallsGenerated)) * (Variables(CallsGenerated) + 1)
    IN  /\ n <= bound
        /\ NoRelationships(CallsGenerated) => n = bound

\* C7 amended: with N >= 1 ambiguous permanent actions and M variable
\* actions the number of ULS combinations is at most
\* 2^N * (1 + M * 2^(M-1)): the permanent actions alone, and each variable
\* action leading with each subset of the others accompanying. It is that
\* number when no incompatibility or dependency was declared and every
\* accompanying factor is neither zero nor the leading factor.
C7_CountSubsetsTimesLeading ==
  (Generated /\ AmbiguousPermanents(CallsGenerated) >= 1) =>
    LET n == Len(getULSTransientCombinations(container))
        M == Variables(CallsGenerated)
        perPermanent == IF M = 0 THEN 1 ELSE 1 + M * Pow2(M - 1)
        bound == Pow2(AmbiguousPermanents(CallsGenerated)) * perPermanent
    IN  /\ n <= bound
        /\ (NoRelationships(CallsGenerated) /\ DistinctRoles(CallsGenerated)) => n = bound

\* G, Q and T (N = 1, M = 2): ten ULS combinations, as in the reference
\* output of the seismic test.
C7_Witness ==
  /\ Generated
  /\ CallsGenerated = <<Catalogue[1], Catalogue[3], Catalogue[6]>>
  /\ Len(getULSTransientCombinations(container)) = 10

\* The registry of C8: G with 1.00/1.35, then Q with 1.50 and psi0 = 0.6.
GAndQ == <<Catalogue[1], Catalogue[4]>>

\* C8 as claimed: G and Q give exactly two ULS combinations,
\* 1.00*G + 1.50*Q and 1.35*G + 1.50*Q.
C8_ExactlyTwoCombinations ==
  (Generated /\ CallsGenerated = GAndQ) =>
    getULSTransientCombinations(container)
      = << << <<(<<"G">>), 100>>, <<(<<"Q">>), 150>> >>,
           << <<(<<"G">>), 135>>, <<(<<"Q">>), 150>> >> >>

\* C8 amended: G and Q give exactly four ULS combinations: 1.00*G, 1.35*G,
\* 1.00*G + 1.50*Q and 1.35*G + 1.50*Q, in this order.
C8_PermanentAloneAndWithQ ==
  (Generated /\ CallsGenerated = GAndQ) =>
    LET uls == getULSTransientCombinations(container)
    IN  [i \in 1..Len(uls) |-> CombName(uls[i])]
          = << <<"1",".","0","0","*","G">>,
               <<"1",".","3","5","*","G">>,
               <<"1",".","0","0","*","G"," ","+"," ","1",".","5","0","*","Q">>,
               <<"1",".","3","5","*","G"," ","+"," ","1",".","5","0","*","Q">> >>

C8_Witness ==
  /\ Generated
  /\ CallsGenerated = GAndQ
  /\ Len(getULSTransientCombinations(container)) = 4

-----------------------------------------------------------------------------
(* Properties of writeXCLoadCombinations.                                  *)

\* C10 as claimed: when a write call has ended, by return or by exception,
\* the file it opened is closed.
C10_FileClosedOnEveryExit ==
  outFile.name \notin {"None", "sys.stdout"} => outFile.closed

\* The prefix of each situation.
SituationPrefix(situation) ==
  CASE situation = "SLSRare" -> <<"S","L","S","R">>
    [] situation = "SLSFrequent" -> <<"S","L","S","F">>
    [] situation = "SLSQuasiPermanent" -> <<"S","L","S","Q","P">>
    [] situation = "ULSTransient" -> <<"U","L","S">>
    [] situation = "ULSAccidental" -> <<"U","L","S","A">>
    [] situation = "ULSSeismic" -> <<"U","L","S","S">>

Recognized(situations) ==
  \A i \in 1..Len(situations) : situations[i] \in SituationSet

\* d names the combinations of list, in their order, with pfx and the
\* zero-padded index.
NamedWith(d, list, pfx) ==
  /\ Len(d) = Len(list)
  /\ \A i \in 1..Len(list) :
       /\ d[i][2] = list[i]
       /\ IsPaddedIndex(d[i][1], pfx, i - 1)

\* The newAction calls of the seismic test: G, Q, T and the earthquake A2.
SeismicTest == <<Catalogue[1], Catalogue[3], Catalogue[6], Catalogue[12]>>

\* C11 as claimed: getNamedCombinations of the generator, called with a
\* situation that is none of the six, does not fail.
C11_UnknownSituationDoesNotFail ==
  (request.op = "CombGenerator.getNamedCombinations"
     /\ request.args \notin SituationSet) =>
    result.raised = "None"

\* C12: getNamedCombinations of the generator names the list of a
\* recognized situation, and no other, with the prefix of the situation;
\* getLoadCombinationsDict holds one entry for each situation requested, in
\* the order of the request, with the named combinations of the situation.
C12_FixedPrefixPerSituation ==
  /\ (request.op = "CombGenerator.getNamedCombinations"
        /\ request.args \in SituationSet) =>
       /\ result.raised = "None"
       /\ NamedWith(result.retval, container[request.args],
                    SituationPrefix(request.args))
  /\ (request.op = "getLoadCombinationsDict" /\ Recognized(request.args)) =>
       /\ result.raised = "None"
       /\ DictKeys(result.retval) = Distinct(request.args)
       /\ \A i \in 1..Len(result.retval) :
            NamedWith(result.retval[i][2], container[result.retval[i][1]],
                      SituationPrefix(result.retval[i][1]))

\* The dictionary of the six situations of the seismic test: the fourth
\* entry holds the ten ULS combinations, the first of them under ULS00.
C12_Witness ==
  /\ request = Request("getLoadCombinationsDict", DefaultSituations)
  /\ calls = SeismicTest
  /\ generatedFrom = Len(registry)
  /\ Len(result.retval) = 6
  /\ result.retval[4][1] = "ULSTransient"
  /\ Len(result.retval[4][2]) = 10
  /\ result.retval[4][2][1][1] = <<"U","L","S","0","0">>
  /\ result.retval[6][2][2][1] = <<"U","L","S","S","1">>

\* comb= combs.newLoadCombination("<key>","<name>") and the end of line.
ExpectedStatement(key, name) ==
  <<"c","o","m","b","="," ","c","o","m","b","s",".","n","e","w","L","o",
    "a","d","C","o","m","b","i","n","a","t","i","o","n","(","\"">>
  \o key \o <<"\"", ",", "\"">> \o name \o <<"\"", ")", "\n">>

\* line binds the name pfx + zero-padded idx to the expression of comb.
IsStatement(line, pfx, idx, comb) ==
  \E w \in 1..4 :
    line = ExpectedStatement(pfx \o zfill(StrNat(idx), w), CombName(comb))

\* The combinations of the situations, in the order of the situations and
\* of the lists, each as <<situation, index>>.
Requested(situations) ==
  Flatten([k \in 1..Len(situations) |->
             [i \in 1..Len(container[situations[k]]) |-> <<situations[k], i>>]])

\* C13: a write call that names recognized situations (or a list with a
\* prefix) writes the header line and then one statement for each
\* combination, in the order of the request and of the lists, each binding
\* the name of the combination to its expression.
C13_OneStatementPerCombination ==
  /\ (request.op = "CombGenerator.writeXCLoadCombinations"
        /\ Recognized(request.args.situations)) =>
       LET todo == Requested(Distinct(request.args.situations))
       IN  /\ raised = "None"
           /\ Len(outFile.lines) = 1 + Len(todo)
           /\ outFile.lines[1] = HeaderLine
           /\ \A n \in 1..Len(todo) :
                IsStatement(outFile.lines[1 + n], SituationPrefix(todo[n][1]),
                            todo[n][2] - 1, container[todo[n][1]][todo[n][2]])
  /\ (request.op = "writeXCLoadCombinations" /\ request.args.prefix # "None") =>
       LET list == request.args.loadCombinations
       IN  /\ raised = "None"
           /\ Len(outFile.lines) = 1 + Len(list)
           /\ outFile.lines[1] = HeaderLine
           /\ \A n \in 1..Len(list) :
                IsStatement(outFile.lines[1 + n], request.args.prefix, n - 1, list[n])

\* The seismic test written for ULSSeismic and ULSTransient, in this order:
\* the two seismic combinations, then the ten ULS ones.
C13_Witness ==
  /\ request.op = "CombGenerator.writeXCLoadCombinations"
  /\ request.args.situations = <<"ULSSeismic", "ULSTransient">>
  /\ request.args.outputFileName = "combinations.py"
  /\ calls = SeismicTest
  /\ generatedFrom = Len(registry)
  /\ Len(outFile.lines) = 13
  /\ outFile.lines[2]
       = <<"c","o","m","b","="," ","c","o","m","b","s",".","n","e","w","L","o",
           "a","d","C","o","m","b","i","n","a","t","i","o","n","(","\"","U",
           "L","S","S","0","\"",",","\"","1",".","0","0","*","G"," ","+"," ",
           "1",".","3","0","*","A","2","\"",")","\n">>
  /\ outFile.lines[13]
       = <<"c","o","m","b","="," ","c","o","m","b","s",".","n","e","w","L","o",
           "a","d","C","o","m","b","i","n","a","t","i","o","n","(","\"","U",
           "L","S","0","9","\"",",","\"","1",".","3","5","*","G"," ","+"," ",
           "1",".","1","6","*","Q"," ","+"," ","1",".","5","0","*","T","\"",
           ")","\n">>

\* ref_ec0_seismic_combinations.py, line by line: the header, the twenty
\* statements and the empty line that ends the file.
ReferenceFile ==
  << <<"c","o","m","b","s","="," ","p","r","e","p","r","o","c","e","s","s",
       "o","r",".","g","e","t","L","o","a","d","H","a","n","d","l","e","r",
       ".","g","e","t","L","o","a","d","C","o","m","b","i","n","a","t","i",
       "o","n","s","\n">>,
     <<"c","o","m","b","="," ","c","o","m","b","s",".","n","e","w","L","o",
       "a","d","C","o","m","b","i","n","a","t","i","o","n","(","\"","S",
       "L","S","R","0","\"",",","\"","1",".","0","0","*","G"," ","+"," ",
       "1",".","0","0","*","Q","\"",")","\n">>,
     <<"c","o","m","b","="," ","c","o","m","b","s",".","n","e","w","L","o",
       "a","d","C","o","m","b","i","n","a","t","i","o","n","(","\"","S",
       "L","S","R","1","\"",",","\"","1",".","0","0","*","G"," ","+"," ",
       "1",".","0","0","*","Q"," ","+"," ","0",".","6","0","*","T","\"",
       ")","\n">>,
     <<"c","o","m","b","="," ","c","o","m","b","s",".","n","e","w","L","o",
       "a","d","C","o","m","b","i","n","a","t","i","o","n","(","\"","S",
       "L","S","R","2","\"",",","\"","1",".","0","0","*","G"," ","+"," ",
       "1",".","0","0","*","T","\"",")","\n">>,
     <<"c","o","m","b","="," ","c","o","m","b","s",".","n","e","w","L","o",
       "a","d","C","o","m","b","i","n","a","t","i","o","n","(","\"","S",
       "L","S","R","3","\"",",","\"","1",".","0","0","*","G"," ","+"," ",
       "0",".","8","0","*","Q"," ","+"," ","1",".","0","0","*","T","\"",
       ")","\n">>,
     <<"c","o","m","b","="," ","c","o","m","b","s",".","n","e","w","L","o",
       "a","d","C","o","m","b","i","n","a","t","i","o","n","(","\"","S",
       "L","S","F","0","\"",",","\"","1",".","0","0","*","G"," ","+"," ",
       "0",".","8","0","*","Q","\"",")","\n">>,
     <<"c","o","m","b","="," ","c","o","m","b","s",".","n","e","w","L","o",
       "a","d","C","o","m","b","i","n","a","t","i","o","n","(","\"","S",
       "L","S","F","1","\"",",","\"","1",".","0","0","*","G"," ","+"," ",
       "0",".","8","0","*","Q"," ","+"," ","0",".","6","0","*","T","\"",
       ")","\n">>,
     <<"c","o","m","b","="," ","c","o","m","b","s",".","n","e","w","L","o",
       "a","d","C","o","m","b","i","n","a","t","i","o","n","(","\"","S",
       "L","S","F","2","\"",",","\"","1",".","0","0","*","G"," ","+"," ",
       "0",".","6","0","*","T","\"",")","\n">>,
     <<"c","o","m","b","="," ","c","o","m","b","s",".","n","e","w","L","o",
       "a","d","C","o","m","b","i","n","a","t","i","o","n","(","\"","S",
       "L","S","Q","P","0","\"",",","\"","1",".","0","0","*","G"," ","+",
       " ","0",".","5","0","*","T","\"",")","\n">>,
     <<"c","o","m","b","="," ","c","o","m","b","s",".","n","e","w","L","o",
       "a","d","C","o","m","b","i","n","a","t","i","o","n","(","\"","U",
       "L","S","0","0","\"",",","\"","1",".","0","0","*","G","\"",")","\n">>,
     <<"c","o","m","b","="," ","c","o","m","b","s",".","n","e","w","L","o",
       "a","d","C","o","m","b","i","n","a","t","i","o","n","(","\"","U",
       "L","S","0","1","\"",",","\"","1",".","3","5","*","G","\"",")","\n">>,
     <<"c","o","m","b","="," ","c","o","m","b","s",".","n","e","w","L","o",
       "a","d","C","o","m","b","i","n","a","t","i","o","n","(","\"","U",
       "L","S","0","2","\"",",","\"","1",".","0","0","*","G"," ","+"," ",
       "1",".","4","5","*","Q","\"",")","\n">>,
     <<"c","o","m","b","="," ","c","o","m","b","s",".","n","e","w","L","o",
       "a","d","C","o","m","b","i","n","a","t","i","o","n","(","\"","U",
       "L","S","0","3","\"",",","\"","1",".","0","0","*","G"," ","+"," ",
       "1",".","4","5","*","Q"," ","+"," ","0",".","9","0","*","T","\"",
       ")","\n">>,
     <<"c","o","m","b","="," ","c","o","m","b","s",".","n","e","w","L","o",
       "a","d","C","o","m","b","i","n","a","t","i","o","n","(","\"","U",
       "L","S","0","4","\"",",","\"","1",".","0","0","*","G"," ","+"," ",
       "1",".","5","0","*","T","\"",")","\n">>,
     <<"c","o","m","b","="," ","c","o","m","b","s",".","n","e","w","L","o",
       "a","d","C","o","m","b","i","n","a","t","i","o","n","(","\"","U",
       "L","S","0","5","\"",",","\"","1",".","0","0","*","G"," ","+"," ",
       "1",".","1","6","*","Q"," ","+"," ","1",".","5","0","*","T","\"",
       ")","\n">>,
     <<"c","o","m","b","="," ","c","o","m","b","s",".","n","e","w","L","o",
       "a","d","C","o","m","b","i","n","a","t","i","o","n","(","\"","U",
       "L","S","0","6","\"",",","\"","1",".","3","5","*","G"," ","+"," ",
       "1",".","4","5","*","Q","\"",")","\n">>,
     <<"c","o","m","b","="," ","c","o","m","b","s",".","n","e","w","L","o",
       "a","d","C","o","m","b","i","n","a","t","i","o","n","(","\"","U",
       "L","S","0","7","\"",",","\"","1",".","3","5","*","G"," ","+"," ",
       "1",".","4","5","*","Q"," ","+"," ","0",".","9","0","*","T","\"",
       ")","\n">>,
     <<"c","o","m","b","="," ","c","o","m","b","s",".","n","e","w","L","o",
       "a","d","C","o","m","b","i","n","a","t","i","o","n","(","\"","U",
       "L","S","0","8","\"",",","\"","1",".","3","5","*","G"," ","+"," ",
       "1",".","5","0","*","T","\"",")","\n">>,
     <<"c","o","m","b","="," ","c","o","m","b","s",".","n","e","w","L","o",
       "a","d","C","o","m","b","i","n","a","t","i","o","n","(","\"","U",
       "L","S","0","9","\"",",","\"","1",".","3","5","*","G"," ","+"," ",
       "1",".","1","6","*","Q"," ","+"," ","1",".","5","0","*","T","\"",
       ")","\n">>,
     <<"c","o","m","b","="," ","c","o","m","b","s",".","n","e","w","L","o",
       "a","d","C","o","m","b","i","n","a","t","i","o","n","(","\"","U",
       "L","S","S","0","\"",",","\"","1",".","0","0","*","G"," ","+"," ",
       "1",".","3","0","*","A","2","\"",")","\n">>,
     <<"c","o","m","b","="," ","c","o","m","b","s",".","n","e","w","L","o",
       "a","d","C","o","m","b","i","n","a","t","i","o","n","(","\"","U",
       "L","S","S","1","\"",",","\"","1",".","0","0","*","G"," ","+"," ",
       "0",".","5","0","*","T"," ","+"," ","1",".","3","0","*","A","2",
       "\"",")","\n">>,
     <<"\n">> >>

\* C14 as claimed: the file the seismic test writes, with the default
\* situations, is the reference file.
C14_FileEqualsReference ==
  (request.op = "CombGenerator.writeXCLoadCombinations"
     /\ request.args.situations = DefaultSituations
     /\ request.args.outputFileName # "None"
     /\ calls = SeismicTest
     /\ generatedFrom = Len(registry)) =>
    /\ raised = "None"
    /\ outFile.lines = ReferenceFile

\* The requested lists are all empty.
NothingToWrite ==
  \/ /\ request.op = "CombGenerator.writeXCLoadCombinations"
     /\ Recognized(request.args.situations)
     /\ \A i \in 1..Len(request.args.situations) :
          Len(container[request.args.situations[i]]) = 0
  \/ /\ request.op = "writeXCLoadCombinations"
     /\ Len(request.args.loadCombinations) = 0

\* C15: a write call with no combination to write raises nothing and
\* writes the header line only.
C15_EmptyExportHeaderOnly ==
  NothingToWrite =>
    /\ raised = "None"
    /\ outFile.lines = <<HeaderLine>>

\* The module function called with an empty list and no prefix, and the
\* method called before any combination was computed.
C15_Witness ==
  /\ NothingToWrite
  /\ outFile.lines = <<HeaderLine>>
  /\ \/ /\ request.op = "writeXCLoadCombinations"
        /\ request.args.prefix = "None"
        /\ request.args.outputFileName = "combinations.py"
     \/ /\ request.op = "CombGenerator.writeXCLoadCombinations"
        /\ request.args.situations = DefaultSituations
        /\ Len(registry) > 0

-----------------------------------------------------------------------------
(* Properties of the enumeration.                                          *)

\* The newAction call that registered actionName before genera() last ran.
CallOf(actionName) ==
  CallsGenerated[CHOOSE k \in 1..Len(CallsGenerated) :
                   CallsGenerated[k].actionName = actionName]

\* How many actions of a family a combination holds.
CountOf(comb, family) ==
  Cardinality({ i \in 1..Len(comb) : CallOf(comb[i][1]).family = family })

ListOf(list) == { list[i] : i \in 1..Len(list) }

\* C16: every ULSAccidental combination holds exactly one accidental
\* action, every ULSSeismic combination exactly one seismic action; no
\* combination holds two of either, and the combinations of the
\* serviceability situations and of ULSTransient hold none.
C16_OneAccidentScenario ==
  /\ \A comb \in ListOf(getULSAccidentalCombinations(container)) :
       CountOf(comb, "accidental") = 1
  /\ \A comb \in ListOf(getULSSeismicCombinations(container)) :
       CountOf(comb, "seismic") = 1
  /\ \A comb \in AllCombinations :
       CountOf(comb, "accidental") <= 1 /\ CountOf(comb, "seismic") <= 1
  /\ \A comb \in ListOf(getSLSCharacteristicCombinations(container))
                   \cup ListOf(getSLSFrequentCombinations(container))
                   \cup ListOf(getSLSQuasiPermanentCombinations(container))
                   \cup ListOf(getULSTransientCombinations(container)) :
       CountOf(comb, "accidental") = 0 /\ CountOf(comb, "seismic") = 0

\* Two accidental actions A1 and A3 were registered with G and Q: each
\* stands in a combination of ULSAccidental.
C16_Witness ==
  /\ Generated
  /\ CallsGenerated = <<Catalogue[1], Catalogue[3], Catalogue[10], Catalogue[11]>>
  /\ \A nm \in { <<"A","1">>, <<"A","3">> } :
       \E comb \in ListOf(getULSAccidentalCombinations(container)) :
         nm \in Present(comb)

\* The full factor of a variable action, and its factor when it
\* accompanies: gamma unfavourable, and gamma unfavourable times psi0.
FullFactor(actionName) ==
  PartialSafetyFactors(CallOf(actionName).partialSafetyFactorsName).unf

AccompanyingFactor(actionName) ==
  (FullFactor(actionName)
     * CombinationFactors(CallOf(actionName).combinationFactorsName).psi0) \div 100

\* C17: in every ULSTransient combination that holds variable actions, one
\* of them carries its full partial safety factor and every other one its
\* partial safety factor times psi0.
C17_OneLeadingOthersAccompanying ==
  \A comb \in ListOf(getULSTransientCombinations(container)) :
    LET vs == { i \in 1..Len(comb) : CallOf(comb[i][1]).family = "variable" }
    IN  \/ vs = {}
        \/ \E j \in vs :
             /\ comb[j][2] = FullFactor(comb[j][1])
             /\ \A i \in vs \ {j} : comb[i][2] = AccompanyingFactor(comb[i][1])

\* G, Q and T: 1.16*Q with 1.50*T (T leads) and 1.45*Q with 0.90*T (Q
\* leads) are ULS combinations.
C17_Witness ==
  /\ Generated
  /\ CallsGenerated = <<Catalogue[1], Catalogue[3], Catalogue[6]>>
  /\ << <<(<<"G">>), 100>>, <<(<<"Q">>), 116>>, <<(<<"T">>), 150>> >>
       \in ListOf(getULSTransientCombinations(container))
  /\ << <<(<<"G">>), 135>>, <<(<<"Q">>), 145>>, <<(<<"T">>), 90>> >>
       \in ListOf(getULSTransientCombinations(container))

SameMultiset(c1, c2) ==
  LET Times(c, t) == Cardinality({ k \in 1..Len(c) : c[k] = t })
  IN  /\ Len(c1) = Len(c2)
      /\ \A k \in 1..Len(c1) : Times(c1, c1[k]) = Times(c2, c1[k])

\* C19: no list of a situation holds two combinations with the same
\* multiset of (action, factor) pairs.
C19_NoDuplicateCombination ==
  \A sit \in SituationSet :
    \A i, j \in 1..Len(container[sit]) :
      SameMultiset(container[sit][i], container[sit][j]) => i = j

\* G, Q and T: in SLSFrequent Q with T accompanying and T with Q
\* accompanying are the same combination, so the list holds three
\* combinations and not four.
C19_Witness ==
  /\ Generated
  /\ CallsGenerated = <<Catalogue[1], Catalogue[3], Catalogue[6]>>
  /\ Len(getSLSFrequentCombinations(container)) = 3
  /\ << <<(<<"G">>), 100>>, <<(<<"Q">>), 80>>, <<(<<"T">>), 60>> >>
       \in ListOf(getSLSFrequentCombinations(container))

\* No two actions of the registry have the same name.
NoRepeatedName(reg) ==
  \A i, j \in 1..Len(reg) : reg[i].name = reg[j].name => i = j

\* C20: a newAction call whose actionName is already registered ends with
\* DuplicateNameError and registers nothing; the registry never holds a
\* name twice.
C20_DuplicateNameSurfaced ==
  [][ /\ (request'.op = "newAction"
            /\ request'.args.actionName \in RegisteredNames(registry)) =>
           /\ raised' = "DuplicateNameError"
           /\ registry' = registry
           /\ calls' = calls
      /\ NoRepeatedName(registry') ]_vars

\* A load Q with the thermal factors was refused: the rail traffic load Q
\* was registered before.
C20_Witness ==
  /\ request = Request("newAction", Catalogue[4])
  /\ raised = "DuplicateNameError"
  /\ calls = <<Catalogue[1], Catalogue[3]>>
  /\ Len(registry) = 2

-----------------------------------------------------------------------------
(* Properties of the registration.                                         *)

\* C21: a newAction call that inserts its action and names in dependsOn an
\* action that is not registered ends with UnknownActionError; a
\* computeCombinations call raises nothing.
C21_UnknownDependencyAtRegistration ==
  [][ /\ (/\ request'.op = "newAction"
          /\ request'.args.actionName \notin RegisteredNames(registry)
          /\ request'.args.dependsOn # "None"
          /\ request'.args.dependsOn
               \notin RegisteredNames(registry) \cup {request'.args.actionName}) =>
           raised' = "UnknownActionError"
      /\ request'.op = "computeCombinations" => raised' = "None" ]_vars

\* B, which depends on Q, was registered after G alone.
C21_Witness ==
  /\ request = Request("newAction", Catalogue[5])
  /\ raised = "UnknownActionError"
  /\ <<"Q">> \notin RegisteredNames(registry)
  /\ <<"G">> \in RegisteredNames(registry)

\* The call names a pattern that its own action name matches.
SelfMatching(c) ==
  /\ c.incompatibleActions # "None"
  /\ \E p \in 1..Len(c.incompatibleActions) :
       Matches(c.incompatibleActions[p], c.actionName)

\* C22: an action whose own name matches one of its incompatibility
\* patterns stands in a generated combination all the same, and Q3A1 and
\* Q3A2, each excluding Q3A.*, stand in no combination together.
C22_PatternsSpareTheActionItself ==
  /\ \A k \in 1..Len(CallsGenerated) :
       SelfMatching(CallsGenerated[k]) =>
         \E comb \in AllCombinations : CallsGenerated[k].actionName \in Present(comb)
  /\ \A comb \in AllCombinations :
       ~({ <<"Q","3","A","1">>, <<"Q","3","A","2">> } \subseteq Present(comb))

\* G, Q3A1 and Q3A2: each thermal load leads a ULS combination alone.
C22_Witness ==
  /\ Generated
  /\ CallsGenerated = <<Catalogue[1], Catalogue[8], Catalogue[9]>>
  /\ << <<(<<"G">>), 135>>, <<(<<"Q","3","A","1">>), 150>> >>
       \in ListOf(getULSTransientCombinations(container))
  /\ << <<(<<"G">>), 135>>, <<(<<"Q","3","A","2">>), 150>> >>
       \in ListOf(getULSTransientCombinations(container))

-----------------------------------------------------------------------------
(* Properties of the utilities that read an expression.                    *)

\* The float a numeral of FactorNumerals denotes.
FactorOf(numeral) ==
  CASE numeral = <<"1",".","0","0">> -> Float(FALSE, <<"1">>, 1)
    [] numeral = <<"1",".","3","5">> -> Float(FALSE, <<"1","3","5">>, 1)
    [] numeral = <<"-","1",".","5">> -> Float(TRUE, <<"1","5">>, 1)
    [] numeral = <<"1","e","1","6">> -> Float(FALSE, <<"1">>, 17)

\* The action names of the terms, each once, in the order they first occur.
NamesOf(terms) == Distinct([i \in 1..Len(terms) |-> terms[i][2]])

\* The factor of the last term of an action.
LastFactor(terms, actionName) ==
  LET last == CHOOSE i \in 1..Len(terms) :
                /\ terms[i][2] = actionName
                /\ \A j \in (i + 1)..Len(terms) : terms[j][2] # actionName
  IN  FactorOf(terms[last][1])

\* An action occurs in more than one term.
Repeats(terms) == Len(NamesOf(terms)) < Len(terms)

\* How many terms an expression written by the utilities holds: each has
\* one '*'.
TermCount(e) == Len(SelectSeq(e, LAMBDA x : x = "*"))

InLoads(actionName) ==
  \E i \in 1..Len(desiredLoads) : desiredLoads[i] = actionName

\* The terms str(factor)*action of entries, joined by '+'.
ExprOf(entries) ==
  Join([i \in 1..Len(entries) |-> StrFloat(entries[i][2]) \o <<"*">> \o entries[i][1]],
       "+")

\* C24: splitCombination returns the terms of getCombinationDict(expr)
\* whose action is in loads, then the others, each in the order of the
\* dictionary: every entry is in exactly one of the two, the first is
\* empty when loads is, the second when loads holds every action.
C24_SplitPartitionsTheTerms ==
  split # NoCall =>
    LET d == getCombinationDict(combExpr).retval
        mine == SelectSeq(d, LAMBDA kv : InLoads(kv[1]))
        others == SelectSeq(d, LAMBDA kv : ~InLoads(kv[1]))
    IN  /\ split.raised = "None"
        /\ split.retval[1] = ExprOf(mine)
        /\ split.retval[2] = ExprOf(others)
        /\ TermCount(split.retval[1]) + TermCount(split.retval[2]) = Len(d)
        /\ Len(desiredLoads) = 0 => split.retval[1] = <<>>
        /\ (\A i \in 1..Len(d) : InLoads(d[i][1])) => split.retval[2] = <<>>

\* "1.35*Qwind + 1.00*G" split for the loads G: ("1.0*G", "1.35*Qwind").
C24_Witness ==
  /\ written = [terms |-> << <<(<<"1",".","3","5">>), (<<"Q","w","i","n","d">>)>>,
                             <<(<<"1",".","0","0">>), (<<"G">>)>> >>,
                spaced |-> TRUE]
  /\ desiredLoads = << <<"G">> >>
  /\ split = Return(<< <<"1",".","0","*","G">>,
                       <<"1",".","3","5","*","Q","w","i","n","d">> >>)

\* C25: getCombinationDict reads the spaced form as the unspaced one: the
\* keys are the bare action names, in the order of the terms, with the
\* factors of the terms; the empty string gives the empty dictionary.
C25_SpacedFormAccepted ==
  combinationDict # NoCall =>
    /\ combinationDict.raised = "None"
    /\ combinationDict = getCombinationDict(WriteExpression(written.terms, FALSE))
    /\ DictKeys(combinationDict.retval) = NamesOf(written.terms)
    /\ ~Repeats(written.terms) =>
         combinationDict.retval
           = [i \in 1..Len(written.terms) |->
                <<written.terms[i][2], FactorOf(written.terms[i][1])>>]
    /\ Len(combExpr) = 0 => combinationDict.retval = <<>>

\* "1.00*G1 + 1.35*Qwind" gives {'G1': 1.0, 'Qwind': 1.35}.
C25_Witness ==
  /\ combExpr = <<"1",".","0","0","*","G","1"," ","+"," ",
                  "1",".","3","5","*","Q","w","i","n","d">>
  /\ combinationDict
       = Return(<< <<(<<"G","1">>), Float(FALSE, <<"1">>, 1)>>,
                   <<(<<"Q","w","i","n","d">>), Float(FALSE, <<"1","3","5">>, 1)>> >>)

\* C26: the file name holds the alphanumeric characters of the expression
\* in their order and no other character, is not empty when the expression
\* has a term, and is the file name of itself.
C26_FileNameAlphanumeric ==
  fileName # NoCall =>
    LET name == fileName.retval
        Kept == { i \in 1..Len(combExpr) : IsDigit(combExpr[i]) \/ combExpr[i] \in Letters }
        \* the place in the expression of the n-th character kept
        Place(n) == CHOOSE i \in Kept : Cardinality({ j \in Kept : j <= i }) = n
    IN  /\ Len(name) = Cardinality(Kept)
        /\ \A n \in 1..Len(name) : name[n] = combExpr[Place(n)]
        /\ \A n \in 1..Len(name) : name[n] \notin {"*", "+", ".", " ", "/", "\\", "-"}
        /\ Len(written.terms) > 0 => Len(name) > 0
        /\ getFileNameFromCombinationExpresion(name) = name

\* "1.35*G1 + -1.5*Qwind" gives "135G115Qwind".
C26_Witness ==
  /\ combExpr = <<"1",".","3","5","*","G","1"," ","+"," ",
                  "-","1",".","5","*","Q","w","i","n","d">>
  /\ fileName = Return(<<"1","3","5","G","1","1","5","Q","w","i","n","d">>)

\* C30: the dictionary holds each action of the expression once, with the
\* factor of its last term; when an action occurs in more than one term,
\* splitCombination returns fewer terms than the expression has.
C30_LastOccurrenceWins ==
  /\ combinationDict # NoCall =>
       /\ combinationDict.raised = "None"
       /\ Len(combinationDict.retval) = Len(NamesOf(written.terms))
       /\ \A i \in 1..Len(combinationDict.retval) :
            combinationDict.retval[i][2]
              = LastFactor(written.terms, combinationDict.retval[i][1])
  /\ (split # NoCall /\ Repeats(written.terms)) =>
       /\ split.raised = "None"
       /\ TermCount(split.retval[1]) + TermCount(split.retval[2])
            < Len(written.terms)

\* "1.00*G+1.35*G": the dictionary is {'G': 1.35} and the split for the
\* loads G is ("1.35*G", "").
C30_Witness ==
  /\ combExpr = <<"1",".","0","0","*","G","+","1",".","3","5","*","G">>
  /\ combinationDict = Return(<< <<(<<"G">>), Float(FALSE, <<"1","3","5">>, 1)>> >>)
  /\ desiredLoads = << <<"G">> >>
  /\ split = Return(<< <<"1",".","3","5","*","G">>, <<>> >>)

-----------------------------------------------------------------------------
(* Properties of the names.                                                *)

\* C27: the keys of the returned mapping are pairwise distinct: it has as
\* many entries as the list has combinations, and its values are the
\* combinations of the list, each once.
C27_NoCombinationLost ==
  Called =>
    /\ named.raised = "None"
    /\ Len(named.retval) = Len(loadCombinations)
    /\ Cardinality({ named.retval[i][1] : i \in 1..Len(named.retval) })
         = Len(loadCombinations)
    /\ DictValues(named.retval) = loadCombinations

\* A thousand combinations named: the width is three, the last key ULS999.
C27_Witness ==
  /\ Called
  /\ Len(loadCombinations) = 1000
  /\ prefix = <<"U","L","S">>
  /\ Len(named.retval) = 1000
  /\ named.retval[1000][1] = <<"U","L","S","9","9","9">>

\* key is a name of the prefix q: q followed by digits.
IsNameOf(key, q) ==
  /\ Len(key) > Len(q)
  /\ SubSeq(key, 1, Len(q)) = q
  /\ AllDigits(SubSeq(key, Len(q) + 1, Len(key)))

\* The name a statement binds: what stands between its first two quotes.
KeyOfStatement(line) == Split(line, "\"")[2]

\* C28: no name of a situation is a name the prefix of another situation
\* could give, whatever the number of its combinations; the statements of
\* a file bind pairwise distinct names.
C28_NamesDistinctAcrossSituations ==
  /\ (request.op = "getLoadCombinationsDict" /\ Recognized(request.args)) =>
       \A i, j \in 1..Len(result.retval) :
         i # j =>
           \A n \in 1..Len(result.retval[i][2]) :
             ~IsNameOf(result.retval[i][2][n][1],
                       SituationPrefix(result.retval[j][1]))
  /\ (request.op = "CombGenerator.writeXCLoadCombinations"
        /\ Recognized(request.args.situations)) =>
       Cardinality({ KeyOfStatement(outFile.lines[n]) : n \in 2..Len(outFile.lines) })
         = Len(outFile.lines) - 1

\* G, Q and the accidental A1 and A3: the dictionary of the six situations
\* holds names ULS0.. and names ULSA0..
C28_Witness ==
  /\ request = Request("getLoadCombinationsDict", DefaultSituations)
  /\ calls = <<Catalogue[1], Catalogue[3], Catalogue[10], Catalogue[11]>>
  /\ generatedFrom = Len(registry)
  /\ result.retval[4][2][1][1] = <<"U","L","S","0">>
  /\ result.retval[5][2][1][1] = <<"U","L","S","A","0">>

\* The characters of a name in the order of their code points.
CodePointOrder ==
  <<"0","1","2","3","4","5","6","7","8","9",
    "A","B","C","D","E","F","G","H","I","J","K","L","M","N","O","P","Q","R",
    "S","T","U","V","W","X","Y","Z">>

CodePoint(x) == CHOOSE k \in 1..Len(CodePointOrder) : CodePointOrder[k] = x

\* a < b for Python strings.
LexLess(a, b) ==
  \/ Len(a) < Len(b) /\ SubSeq(b, 1, Len(a)) = a
  \/ \E k \in 1..Len(a) :
       /\ k <= Len(b)
       /\ SubSeq(a, 1, k - 1) = SubSeq(b, 1, k - 1)
       /\ CodePoint(a[k]) < CodePoint(b[k])

\* C29: the names of one call have the same length, and each is less, as
\* a string, than the name of the next combination.
C29_NamesSortInEmissionOrder ==
  (Called /\ Len(loadCombinations) > 0) =>
    /\ named.raised = "None"
    /\ \A i \in 1..Len(named.retval) :
         Len(named.retval[i][1]) = Len(named.retval[1][1])
    /\ \A i \in 1..(Len(named.retval) - 1) :
         LexLess(named.retval[i][1], named.retval[i + 1][1])

\* Twelve combinations named: ELU09 comes before ELU10.
C29_Witness ==
  /\ Called
  /\ Len(loadCombinations) = 12
  /\ prefix = <<"E","L","U">>
  /\ named.retval[10][1] = <<"E","L","U","0","9">>
  /\ named.retval[11][1] = <<"E","L","U","1","0">>

====
